---- MODULE Spec2Model ----
(***************************************************************************)
(* The task store of the task manager: the Redux slice `tasks`             *)
(* (task-manager/src/features/tasks/tasksSlice.ts), its reducers, the      *)
(* localStorage persistence around them and the start of the process.      *)
(*                                                                         *)
(* Strings of the program are TLA+ strings, except the two texts kept in   *)
(* localStorage, which are modelled by what JSON.stringify / JSON.parse    *)
(* and Number.prototype.toString / parseInt do with them.                  *)
(***************************************************************************)
EXTENDS Integers, Sequences, FiniteSets, TLC

VARIABLES
    tasks,          \* TasksState.tasks: the live collection, in order
    nextId,         \* TasksState.nextId
    deletedIds,     \* TasksState.deletedIds: the pool of ids to reuse
    localStorage,   \* window.localStorage: the entries 'tasks' and 'nextId'
    thrown,         \* whether the last dispatch / start threw to its caller
    last,           \* the last operation: its name, argument, write outcome
    prev,           \* state and storage just before the last operation
    steps,          \* number of operations so far
    writeFailures,  \* number of operations whose storage write failed
    drawn,          \* ids that creates of this process drew from nextId
    view            \* the last derived view computed, with its inputs

vars == <<tasks, nextId, deletedIds, localStorage, thrown, last, prev, steps,
          writeFailures, drawn, view>>

----------------------------------------------------------------------------
(* Bounds of the model. *)

MaxSteps == 3

MaxWriteFailures == 1

\* Steps of a run of create and delete alone.
MaxIdSteps == 4

\* Tasks of a collection the statistics are computed of.
MaxTotal == 40

\* Tasks of a collection the filtering and sorting selectors are applied to.
MaxViewLen == 3

----------------------------------------------------------------------------
(* Generic helpers for JavaScript arrays and objects. *)

\* { ...a, ...b }: the keys of both, b's value where both have the key.
Spread(a, b) ==
    [k \in (DOMAIN a) \cup (DOMAIN b) |-> IF k \in DOMAIN b THEN b[k] ELSE a[k]]

\* Array.prototype.filter with a predicate on the element.
RECURSIVE FilterOutId(_, _)
FilterOutId(seq, id) ==
    IF seq = <<>> THEN <<>>
    ELSE IF Head(seq).id # id
         THEN <<Head(seq)>> \o FilterOutId(Tail(seq), id)
         ELSE FilterOutId(Tail(seq), id)

\* Array.prototype.findIndex(task => task.id === id): the 0-based index of
\* the first match, -1 when there is none.
FindIndex(seq, id) ==
    IF \E i \in 1..Len(seq) : seq[i].id = id
    THEN (CHOOSE i \in 1..Len(seq) :
            /\ seq[i].id = id
            /\ \A j \in 1..(i - 1) : seq[j].id # id) - 1
    ELSE -1

\* Insert x = [key, item] into a sequence sorted by key, after every
\* element whose key is not greater (the comparator a.key - b.key is not
\* negative there): a stable insertion.
RECURSIVE InsertByKey(_, _)
InsertByKey(x, sorted) ==
    IF sorted = <<>> THEN <<x>>
    ELSE IF x.key - Head(sorted).key < 0
         THEN <<x>> \o sorted
         ELSE <<Head(sorted)>> \o InsertByKey(x, Tail(sorted))

RECURSIVE SortKeyed(_)
SortKeyed(pairs) ==
    IF pairs = <<>> THEN <<>>
    ELSE InsertByKey(pairs[Len(pairs)],
                     SortKeyed(SubSeq(pairs, 1, Len(pairs) - 1)))

\* Array.prototype.sort((a, b) => key(a) - key(b)), a stable sort; keys[i]
\* is the number the comparator takes for seq[i].
SortBy(seq, keys) ==
    LET pairs == [i \in 1..Len(seq) |-> [key |-> keys[i], item |-> seq[i]]]
        sorted == SortKeyed(pairs)
    IN  [i \in 1..Len(seq) |-> sorted[i].item]

----------------------------------------------------------------------------
(* The fixed sample data. *)

SampleTasks ==
    << [id |-> 1, title |-> "Fix login bug", status |-> "pending",
        deadline |-> "2025-05-10", category |-> "work", priority |-> "high"],
       [id |-> 2, title |-> "Write unit tests", status |-> "completed",
        deadline |-> "2025-06-01", category |-> "work", priority |-> "medium"],
       [id |-> 3, title |-> "Update README documentation", status |-> "pending",
        deadline |-> "2025-04-15", category |-> "work", priority |-> "low"],
       [id |-> 4, title |-> "Design new user profile page", status |-> "pending",
        deadline |-> "2025-04-01", category |-> "personal", priority |-> "medium"],
       [id |-> 5, title |-> "Buy groceries", status |-> "pending",
        deadline |-> "2025-04-05", category |-> "shopping", priority |-> "high"],
       [id |-> 6, title |-> "Schedule doctor appointment", status |-> "completed",
        deadline |-> "2025-04-10", category |-> "health", priority |-> "high"],
       [id |-> 7, title |-> "Pay utility bills", status |-> "pending",
        deadline |-> "2025-04-20", category |-> "finance", priority |-> "medium"] >>

SampleNextId == 8

SampleData == [tasks |-> SampleTasks, nextId |-> SampleNextId]

----------------------------------------------------------------------------
(* Numbers and their decimal text.                                         *)

\* The number NaN. It is no integer; the model gives it a value that no
\* decimal text within the model's bounds parses to.
NaN == -2147483647

\* Number.MAX_SAFE_INTEGER is 2^53 - 1; here it is the largest integer of the
\* model checker, which like 2^53 - 1 exceeds every array index.
MAX_SAFE_INTEGER == 2147483647

\* Increment that leaves the number as it is.
Increment_Same(n) == n

\* n + 1 on JavaScript numbers.
Increment(n) == IF n = NaN THEN NaN ELSE n + 1

DigitChars == <<"0", "1", "2", "3", "4", "5", "6", "7", "8", "9">>

IsDigit(c) == \E d \in 1..Len(DigitChars) : DigitChars[d] = c

DigitValue(c) == (CHOOSE d \in 1..Len(DigitChars) : DigitChars[d] = c) - 1

RECURSIVE NatToChars(_)
NatToChars(n) ==
    IF n < Len(DigitChars) THEN <<DigitChars[n + 1]>>
    ELSE NatToChars(n \div Len(DigitChars))
             \o <<DigitChars[(n % Len(DigitChars)) + 1]>>

\* Number.prototype.toString(): the decimal text of a number.
NumberToString(n) ==
    IF n = NaN THEN <<"N", "a", "N">>
    ELSE IF n < 0 THEN <<"-">> \o NatToChars(0 - n)
    ELSE NatToChars(n)

\* The value of the longest prefix of digits of chars, continuing from acc;
\* seen tells whether a digit has been read.
RECURSIVE DigitPrefix(_, _, _)
DigitPrefix(chars, acc, seen) ==
    IF chars # <<>> /\ IsDigit(Head(chars))
    THEN DigitPrefix(Tail(chars), acc * Len(DigitChars) + DigitValue(Head(chars)), TRUE)
    ELSE IF seen THEN acc ELSE NaN

RECURSIVE SkipSpaces(_)
SkipSpaces(chars) ==
    IF chars # <<>> /\ Head(chars) = " " THEN SkipSpaces(Tail(chars)) ELSE chars

\* parseInt(chars, 10): leading white space, an optional sign, then the
\* longest run of digits; NaN when there is no digit.
ParseIntChars(chars) ==
    LET t == SkipSpaces(chars)
        signed == t # <<>> /\ Head(t) \in {"-", "+"}
        mag == DigitPrefix(IF signed THEN Tail(t) ELSE t, 0, FALSE)
    IN  IF mag = NaN THEN NaN
        ELSE IF signed /\ Head(t) = "-" THEN 0 - mag ELSE mag

----------------------------------------------------------------------------
(* The texts kept in localStorage.  An entry is what getItem returns:      *)
(*   kind "null"     no entry (getItem returns null)                       *)
(*   kind "empty"    the empty string                                      *)
(*   kind "chars"    a non-empty string given by its characters            *)
(*   kind "array"    the JSON text of an array of objects; body holds, per *)
(*                   object, its members <<key, value>> in written order   *)
(*   kind "object"   the JSON text of an object that is not an array       *)
(*   kind "garbage"  a text that is no JSON and starts with no digit       *)

NullEntry == [kind |-> "null", body |-> <<>>]

\* if (s): null and the empty string are falsy, every other string truthy.
Truthy(entry) == entry.kind \notin {"null", "empty"}

\* The key order of a task object: id first ({ id: newId, ...payload }).
TaskKeys == <<"id", "title", "status", "deadline", "category", "priority">>

\* JSON.stringify of one object: its members in key order.
StringifyObject(obj) ==
    LET keys == SelectSeq(TaskKeys, LAMBDA k : k \in DOMAIN obj)
    IN  [i \in 1..Len(keys) |-> <<keys[i], obj[keys[i]]>>]

\* JSON.stringify(state.tasks).
JSONStringify(ts) ==
    [kind |-> "array", body |-> [i \in 1..Len(ts) |-> StringifyObject(ts[i])]]

\* JSON.parse of one object text: a later member of the same key wins.
ParseObject(members) ==
    [k \in {members[i][1] : i \in 1..Len(members)} |->
        LET i == CHOOSE i \in 1..Len(members) :
                    /\ members[i][1] = k
                    /\ \A j \in (i + 1)..Len(members) : members[j][1] # k
        IN  members[i][2]]

\* A parsed JSON value that is not an array (an object or a number).
NonArray(v) == [k \in {0} |-> v]

IsNumberChars(chars) ==
    LET t == IF Head(chars) = "-" THEN Tail(chars) ELSE chars
    IN  /\ t # <<>>
        /\ \A i \in 1..Len(t) : IsDigit(t[i])
        /\ (Len(t) > 1 => t[1] # "0")

\* JSON.parse(text): the value, or threw when the text is no JSON.
JSONParse(entry) ==
    CASE entry.kind = "array" ->
            [threw |-> FALSE,
             value |-> [i \in 1..Len(entry.body) |-> ParseObject(entry.body[i])]]
      [] entry.kind = "object" ->
            [threw |-> FALSE, value |-> NonArray(0)]
      [] entry.kind = "chars" /\ IsNumberChars(entry.body) ->
            [threw |-> FALSE, value |-> NonArray(ParseIntChars(entry.body))]
      [] OTHER ->
            [threw |-> TRUE, value |-> <<>>]

\* parseInt(text, 10) of a stored text.
ParseInt(entry) ==
    IF entry.kind = "chars" THEN ParseIntChars(entry.body) ELSE NaN

\* state.nextId.toString() as a stored text.
ToStringEntry(n) == [kind |-> "chars", body |-> NumberToString(n)]

----------------------------------------------------------------------------
(* Loading and saving. *)

\* loadTasksFromStorage that reads the tasks and not the stored nextId.
LoadTasksFromStorage_IgnoreNextId(storage, accessible) ==
    IF accessible /\ Truthy(storage.tasks) /\ Truthy(storage.nextId)
                  /\ ~JSONParse(storage.tasks).threw
    THEN [tasks |-> JSONParse(storage.tasks).value, nextId |-> SampleNextId]
    ELSE SampleData

\* loadTasksFromStorage(): accessible is FALSE when reading localStorage
\* throws, which the catch turns into the sample data.
LoadTasksFromStorage(storage, accessible) ==
    IF ~accessible THEN SampleData
    ELSE LET storedTasks == storage.tasks
             storedNextId == storage.nextId
         IN  IF Truthy(storedTasks) /\ Truthy(storedNextId)
             THEN LET parsed == JSONParse(storedTasks)
                  IN  IF parsed.threw THEN SampleData
                      ELSE [tasks |-> parsed.value, nextId |-> ParseInt(storedNextId)]
             ELSE SampleData

\* The outcomes of the two setItem calls of one save: both succeed, the
\* first throws, or the first succeeds and the second throws.
WriteOutcomes == {"ok", "failTasks", "failNextId"}

\* saveToLocalStorage with the nextId entry never written.
SaveToLocalStorage_TasksOnly(storage, state, w) ==
    [storage |-> IF w = "failTasks" THEN storage
                 ELSE [storage EXCEPT !.tasks = JSONStringify(state.tasks)],
     threw |-> FALSE,
     calls |-> IF w = "failTasks" THEN 1 ELSE 2]

\* saveToLocalStorage without its catch: a failing setItem throws on.
SaveToLocalStorage_NoCatch(storage, state, w) ==
    [storage |-> IF w = "ok"
                 THEN [tasks |-> JSONStringify(state.tasks),
                       nextId |-> ToStringEntry(state.nextId)]
                 ELSE IF w = "failTasks" THEN storage
                 ELSE [storage EXCEPT !.tasks = JSONStringify(state.tasks)],
     threw |-> w # "ok",
     calls |-> IF w = "failTasks" THEN 1 ELSE 2]

\* saveToLocalStorage(state): the storage afterwards, whether an error left
\* the function (never: the catch logs it), and the setItem calls made.
SaveToLocalStorage(storage, state, w) ==
    CASE w = "ok" ->
            [storage |-> [tasks |-> JSONStringify(state.tasks),
                          nextId |-> ToStringEntry(state.nextId)],
             threw |-> FALSE, calls |-> 2]
      [] w = "failTasks" ->
            [storage |-> storage, threw |-> FALSE, calls |-> 1]
      [] w = "failNextId" ->
            [storage |-> [storage EXCEPT !.tasks = JSONStringify(state.tasks)],
             threw |-> FALSE, calls |-> 2]

----------------------------------------------------------------------------
(* The reducers.  A reducer takes the slice state [tasks, nextId,          *)
(* deletedIds], the storage, its payload and the outcome w of the storage  *)
(* write, and gives the draft state it leaves, the storage afterwards,     *)
(* whether it threw, and the number of setItem calls it made.              *)

State(t, n, d) == [tasks |-> t, nextId |-> n, deletedIds |-> d]

\* The reducer ends with saveToLocalStorage(state).
Saved(state, storage, w) ==
    LET r == SaveToLocalStorage(storage, state, w)
    IN  [state |-> state, storage |-> r.storage, threw |-> r.threw, calls |-> r.calls]

\* The reducer returns without touching the storage.
Unsaved(state, storage) ==
    [state |-> state, storage |-> storage, threw |-> FALSE, calls |-> 0]

\* addTask that draws nextId without increasing it.
addTask_NoIncrement(state, storage, payload, w) ==
    LET reuse == Len(state.deletedIds) > 0
        sorted == SortBy(state.deletedIds, state.deletedIds)
        newId == IF reuse THEN Head(sorted) ELSE state.nextId
    IN  Saved(State(Append(state.tasks, Spread([id |-> newId], payload)),
                    state.nextId,
                    IF reuse THEN Tail(sorted) ELSE state.deletedIds),
              storage, w)

\* addTask that takes the oldest deleted id, not the smallest.
addTask_NoSort(state, storage, payload, w) ==
    LET reuse == Len(state.deletedIds) > 0
        newId == IF reuse THEN Head(state.deletedIds) ELSE state.nextId
    IN  Saved(State(Append(state.tasks, Spread([id |-> newId], payload)),
                    IF reuse THEN state.nextId ELSE Increment(state.nextId),
                    IF reuse THEN Tail(state.deletedIds) ELSE state.deletedIds),
              storage, w)

\* addTask that puts the new task first (unshift for push).
addTask_Unshift(state, storage, payload, w) ==
    LET reuse == Len(state.deletedIds) > 0
        sorted == SortBy(state.deletedIds, state.deletedIds)
        newId == IF reuse THEN Head(sorted) ELSE state.nextId
    IN  Saved(State(<<Spread([id |-> newId], payload)>> \o state.tasks,
                    IF reuse THEN state.nextId ELSE Increment(state.nextId),
                    IF reuse THEN Tail(sorted) ELSE state.deletedIds),
              storage, w)

addTask(state, storage, payload, w) ==
    LET reuse == Len(state.deletedIds) > 0
        sorted == SortBy(state.deletedIds, state.deletedIds)
        newId == IF reuse THEN Head(sorted) ELSE state.nextId
        newTask == Spread([id |-> newId], payload)
    IN  Saved(State(Append(state.tasks, newTask),
                    IF reuse THEN state.nextId ELSE Increment(state.nextId),
                    IF reuse THEN Tail(sorted) ELSE state.deletedIds),
              storage, w)

\* updateTask that puts the payload in the task's place without merging.
updateTask_Replace(state, storage, payload, w) ==
    LET index == FindIndex(state.tasks, payload.id)
    IN  IF index # -1
        THEN Saved([state EXCEPT !.tasks[index + 1] = payload], storage, w)
        ELSE Unsaved(state, storage)

updateTask(state, storage, payload, w) ==
    LET index == FindIndex(state.tasks, payload.id)
    IN  IF index # -1
        THEN Saved([state EXCEPT !.tasks[index + 1] = Spread(@, payload)], storage, w)
        ELSE Unsaved(state, storage)

\* toggleTaskStatus that marks the task completed whatever it was.
toggleTaskStatus_SetCompleted(state, storage, id, w) ==
    LET index == FindIndex(state.tasks, id)
    IN  IF index # -1
        THEN Saved([state EXCEPT !.tasks[index + 1].status = "completed"],
                   storage, w)
        ELSE Unsaved(state, storage)

\* toggleTaskStatus that saves whether or not it found the task.
toggleTaskStatus_AlwaysSave(state, storage, id, w) ==
    LET index == FindIndex(state.tasks, id)
    IN  IF index # -1
        THEN Saved([state EXCEPT !.tasks[index + 1].status =
                        IF @ = "pending" THEN "completed" ELSE "pending"],
                   storage, w)
        ELSE Saved(state, storage, w)

toggleTaskStatus(state, storage, id, w) ==
    LET index == FindIndex(state.tasks, id)
    IN  IF index # -1
        THEN Saved([state EXCEPT !.tasks[index + 1].status =
                        IF @ = "pending" THEN "completed" ELSE "pending"],
                   storage, w)
        ELSE Unsaved(state, storage)

\* deleteTask that pools the id only when a task had it.
deleteTask_PoolIfFound(state, storage, id, w) ==
    Saved(State(FilterOutId(state.tasks, id), state.nextId,
                IF FindIndex(state.tasks, id) # -1
                THEN Append(state.deletedIds, id) ELSE state.deletedIds),
          storage, w)

deleteTask(state, storage, id, w) ==
    Saved(State(FilterOutId(state.tasks, id), state.nextId,
                Append(state.deletedIds, id)),
          storage, w)

\* OrderOf that ranks an id that is not in taskIds before every listed one.
OrderOf_UnlistedFirst(taskIds, id) ==
    IF \E i \in 1..Len(taskIds) : taskIds[i] = id
    THEN (CHOOSE i \in 1..Len(taskIds) :
            /\ taskIds[i] = id
            /\ \A j \in (i + 1)..Len(taskIds) : taskIds[j] # id) - 1
    ELSE -1

\* new Map(taskIds.map((id, index) => [id, index])).get(id) ??
\* Number.MAX_SAFE_INTEGER: the last index of id in taskIds, 0-based.
OrderOf(taskIds, id) ==
    IF \E i \in 1..Len(taskIds) : taskIds[i] = id
    THEN (CHOOSE i \in 1..Len(taskIds) :
            /\ taskIds[i] = id
            /\ \A j \in (i + 1)..Len(taskIds) : taskIds[j] # id) - 1
    ELSE MAX_SAFE_INTEGER

\* updateTaskOrder that keeps only the tasks whose id is in taskIds.
updateTaskOrder_ListedOnly(state, storage, taskIds, w) ==
    LET listed == SelectSeq(state.tasks,
                            LAMBDA t : \E i \in 1..Len(taskIds) : taskIds[i] = t.id)
        order == [i \in 1..Len(listed) |-> OrderOf(taskIds, listed[i].id)]
    IN  Saved([state EXCEPT !.tasks = SortBy(listed, order)], storage, w)

updateTaskOrder(state, storage, taskIds, w) ==
    LET order == [i \in 1..Len(state.tasks) |-> OrderOf(taskIds, state.tasks[i].id)]
    IN  Saved([state EXCEPT !.tasks = SortBy(@, order)], storage, w)

\* localStorage.removeItem of both keys, then the sample data that
\* loadTasksFromStorage() gives for the emptied storage.  The removeItem
\* calls are in no try block: when the storage cannot be accessed the first
\* of them throws out of the reducer.
resetToSampleData(state, storage, accessible) ==
    LET cleared == [tasks |-> NullEntry, nextId |-> NullEntry]
        sampleData == LoadTasksFromStorage(cleared, accessible)
    IN  IF accessible
        THEN Unsaved(State(sampleData.tasks, sampleData.nextId, <<>>), cleared)
        ELSE [state |-> state, storage |-> storage, threw |-> TRUE, calls |-> 0]

----------------------------------------------------------------------------
(* JavaScript numbers in the statistics: IEEE 754 doubles.  A positive     *)
(* double is [m, e]: m its 53 significand bits, most significant first and *)
(* starting with 1, e the binary exponent of the last of them, so that the *)
(* value is (m read as a binary number) * 2^e.  Zero is [m |-> <<>>].      *)

\* Bits of a double's significand.
Precision == 53

Zero == [m |-> <<>>, e |-> 0]

\* The binary number `bits` (most significant bit first) plus one.
RECURSIVE AddOne(_)
AddOne(bits) ==
    IF bits = <<>> THEN <<1>>
    ELSE IF bits[Len(bits)] = 0
    THEN SubSeq(bits, 1, Len(bits) - 1) \o <<1>>
    ELSE AddOne(SubSeq(bits, 1, Len(bits) - 1)) \o <<0>>

\* The natural number n in binary, most significant bit first.
RECURSIVE NatBits(_)
NatBits(n) == IF n = 0 THEN <<>> ELSE NatBits(n \div 2) \o <<n % 2>>

\* The natural number that `bits` is in binary.
RECURSIVE BitsNat(_)
BitsNat(bits) ==
    IF bits = <<>> THEN 0
    ELSE 2 * BitsNat(SubSeq(bits, 1, Len(bits) - 1)) + bits[Len(bits)]

\* Round to nearest, ties to even: `kept` are the first 53 bits of the
\* exact result, e the exponent of the last of them, and rest says whether
\* what was cut off is below, at or above half of the last kept bit.
Nearest(kept, e, rest) ==
    LET up == rest = "above" \/ (rest = "tie" /\ kept[Len(kept)] = 1)
        m == IF up THEN AddOne(kept) ELSE kept
    IN  IF Len(m) > Precision
        THEN [m |-> SubSeq(m, 1, Precision), e |-> e + 1]
        ELSE [m |-> m, e |-> e]

\* The bits of r / t from the bit of exponent e on, r < 2 * t, after the
\* bits `bits` found so far, up to 53 bits and rounded.
RECURSIVE DivideFrom(_, _, _, _)
DivideFrom(r, t, bits, e) ==
    LET bit == IF r >= t THEN 1 ELSE 0
        rem == r - bit * t
        found == IF bits = <<>> /\ bit = 0 THEN <<>> ELSE Append(bits, bit)
    IN  IF Len(found) = Precision
        THEN Nearest(found, e, IF 2 * rem > t THEN "above"
                               ELSE IF 2 * rem = t THEN "tie" ELSE "below")
        ELSE DivideFrom(2 * rem, t, found, e - 1)

\* c / t on doubles, for naturals 0 <= c <= t, 0 < t.
Divide(c, t) == IF c = 0 THEN Zero ELSE DivideFrom(c, t, <<>>, 0)

\* The first i bits of the binary number `bits`, times the natural k, plus
\* carry.
RECURSIVE TimesBits(_, _, _, _)
TimesBits(bits, i, k, carry) ==
    IF i = 0 THEN NatBits(carry)
    ELSE LET d == bits[i] * k + carry
         IN  IF d % 2 = 0
             THEN TimesBits(bits, i - 1, k, d \div 2) \o <<0>>
             ELSE TimesBits(bits, i - 1, k, d \div 2) \o <<1>>

\* x * k on doubles, for a natural k > 0.
Times(x, k) ==
    IF x = Zero THEN Zero
    ELSE LET exact == TimesBits(x.m, Len(x.m), k, 0)
             cut == SubSeq(exact, Precision + 1, Len(exact))
         IN  Nearest(SubSeq(exact, 1, Precision), x.e + Len(cut),
                     IF cut = <<>> \/ cut[1] = 0 THEN "below"
                     ELSE IF \A i \in 2..Len(cut) : cut[i] = 0 THEN "tie"
                     ELSE "above")

\* Math.round(x) for a double 0 <= x < 2^31: the integer part, plus one
\* when the fraction is a half or more.
MathRound(x) ==
    IF x = Zero THEN 0
    ELSE LET fraction == 0 - x.e
             whole == Precision - fraction
         IN  IF fraction <= 0 THEN BitsNat(x.m \o [i \in 1..x.e |-> 0])
             ELSE IF whole < 0 THEN 0
             ELSE BitsNat(SubSeq(x.m, 1, whole)) + x.m[whole + 1]

----------------------------------------------------------------------------
(* The statistics of the dashboard.  Times are counted in hours since      *)
(* 1970-01-01T00:00Z where the code counts milliseconds.                   *)

HoursPerDay == 24

\* Year, month and day of the deadline strings of the model, as Date
\* reads them; any other text is no date.
DateFields(text) ==
    CASE text = "2025-01-01" -> <<2025, 1, 1>>
      [] text = "2025-04-01" -> <<2025, 4, 1>>
      [] text = "2025-04-05" -> <<2025, 4, 5>>
      [] text = "2025-04-10" -> <<2025, 4, 10>>
      [] text = "2025-04-15" -> <<2025, 4, 15>>
      [] text = "2025-04-20" -> <<2025, 4, 20>>
      [] text = "2025-05-10" -> <<2025, 5, 10>>
      [] text = "2025-06-01" -> <<2025, 6, 1>>
      [] text = "2025-07-15" -> <<2025, 7, 15>>
      [] OTHER -> <<>>

\* Days from 1970-01-01 to the day d of month m of year y.
DaysFromCivil(y, m, d) ==
    LET yy == IF m <= 2 THEN y - 1 ELSE y
        era == yy \div 400
        yoe == yy - era * 400
        doy == (153 * (IF m > 2 THEN m - 3 ELSE m + 9) + 2) \div 5 + d - 1
        doe == yoe * 365 + yoe \div 4 - yoe \div 100 + doy
    IN  era * 146097 + doe - 719468

\* The instant h hours into the day d of month m of year y (UTC).
DateUTC(y, m, d, h) == DaysFromCivil(y, m, d) * HoursPerDay + h

\* new Date(text).getTime(): a date-only text is midnight UTC of that day,
\* and a text that is no date gives NaN.
GetTime(text) ==
    LET f == DateFields(text)
    IN  IF f = <<>> THEN NaN ELSE DateUTC(f[1], f[2], f[3], 0)

\* Math.ceil(a / b) for integers a and b > 0; -0 is 0.
MathCeilDiv(a, b) == 0 - ((0 - a) \div b)

\* tasks.filter(task => task.status === status).length that counts the
\* tasks of any other status.
CountStatus_Others(ts, status) ==
    Cardinality({i \in 1..Len(ts) : ts[i].status # status})

\* tasks.filter(task => task.status === status).length
CountStatus(ts, status) ==
    Cardinality({i \in 1..Len(ts) : ts[i].status = status})

\* The reduce that sets every count it meets to 1.
RECURSIVE ReduceCounts_NoSum(_, _, _)
ReduceCounts_NoSum(keys, i, acc) ==
    IF i > Len(keys) THEN acc
    ELSE LET next == [k \in DOMAIN acc \cup {keys[i]} |->
                        IF k = keys[i] THEN 1 ELSE acc[k]]
         IN  ReduceCounts_NoSum(keys, i + 1, next)

\* tasks.reduce((acc, task) => { acc[key] = (acc[key] || 0) + 1; return
\* acc; }, {}) from the i-th task on, keys being the tasks' keys in order.
RECURSIVE ReduceCounts(_, _, _)
ReduceCounts(keys, i, acc) ==
    IF i > Len(keys) THEN acc
    ELSE LET old == IF keys[i] \in DOMAIN acc THEN acc[keys[i]] ELSE 0
             next == [k \in DOMAIN acc \cup {keys[i]} |->
                        IF k = keys[i] THEN old + 1 ELSE acc[k]]
         IN  ReduceCounts(keys, i + 1, next)

\* totalTasks ? Math.round((completedTasks / totalTasks) * 100) : 0
CompletionRate(completedTasks, totalTasks) ==
    IF totalTasks # 0
    THEN MathRound(Times(Divide(completedTasks, totalTasks), 100))
    ELSE 0

\* task.status === 'pending' && new Date(task.deadline) < today
IsOverdue(task, today) ==
    /\ task.status = "pending"
    /\ GetTime(task.deadline) # NaN
    /\ GetTime(task.deadline) < today

\* task.status === 'pending' && diffDays >= 0 && diffDays <= 7
IsUpcoming(task, today) ==
    LET deadline == GetTime(task.deadline)
        diffTime == deadline - today
        diffDays == MathCeilDiv(diffTime, HoursPerDay)
    IN  /\ task.status = "pending"
        /\ deadline # NaN
        /\ diffDays >= 0
        /\ diffDays <= 7

\* selectTaskStatistics on the collection ts when new Date() is today.
selectTaskStatistics(ts, today) ==
    LET totalTasks == Len(ts)
        completedTasks == CountStatus(ts, "completed")
    IN  [totalTasks |-> totalTasks,
         completedTasks |-> completedTasks,
         pendingTasks |-> totalTasks - completedTasks,
         completionRate |-> CompletionRate(completedTasks, totalTasks),
         categoryCounts |->
            ReduceCounts([i \in 1..Len(ts) |-> ts[i].category], 1, <<>>),
         priorityCounts |->
            ReduceCounts([i \in 1..Len(ts) |-> ts[i].priority], 1, <<>>),
         overdueCount |->
            Cardinality({i \in 1..Len(ts) : IsOverdue(ts[i], today)}),
         upcomingCount |->
            Cardinality({i \in 1..Len(ts) : IsUpcoming(ts[i], today)})]

----------------------------------------------------------------------------
(* JavaScript strings in the selectors: a string is the sequence of its    *)
(* characters, compared by their UTF-16 code units.                        *)

\* The characters of the texts of the model.
Chars(text) ==
    CASE text = "" -> <<>>
      [] text = "  " -> <<" ", " ">>
      [] text = "LOGIN" -> <<"L", "O", "G", "I", "N">>
      [] text = "ab" -> <<"a", "b">>
      [] text = "xyz" -> <<"x", "y", "z">>
      [] text = "bug " -> <<"b", "u", "g", " ">>
      [] text = "Fix login bug" ->
            <<"F", "i", "x", " ", "l", "o", "g", "i", "n", " ", "b", "u",
              "g">>
      [] text = "Write unit tests" ->
            <<"W", "r", "i", "t", "e", " ", "u", "n", "i", "t", " ", "t",
              "e", "s", "t", "s">>
      [] text = "FIX LOGIN BUG" ->
            <<"F", "I", "X", " ", "L", "O", "G", "I", "N", " ", "B", "U",
              "G">>
      [] text = "Buy groceries" ->
            <<"B", "u", "y", " ", "g", "r", "o", "c", "e", "r", "i", "e",
              "s">>
      [] text = "fix Login page" ->
            <<"f", "i", "x", " ", "L", "o", "g", "i", "n", " ", "p", "a",
              "g", "e">>
      [] text = "pending" -> <<"p", "e", "n", "d", "i", "n", "g">>
      [] text = "completed" -> <<"c", "o", "m", "p", "l", "e", "t", "e", "d">>
      [] text = "work" -> <<"w", "o", "r", "k">>
      [] text = "personal" -> <<"p", "e", "r", "s", "o", "n", "a", "l">>
      [] text = "shopping" -> <<"s", "h", "o", "p", "p", "i", "n", "g">>
      [] text = "health" -> <<"h", "e", "a", "l", "t", "h">>
      [] text = "finance" -> <<"f", "i", "n", "a", "n", "c", "e">>
      [] text = "other" -> <<"o", "t", "h", "e", "r">>
      [] text = "high" -> <<"h", "i", "g", "h">>
      [] text = "medium" -> <<"m", "e", "d", "i", "u", "m">>
      [] text = "low" -> <<"l", "o", "w">>
      [] text = "2025-04-05" ->
            <<"2", "0", "2", "5", "-", "0", "4", "-", "0", "5">>
      [] text = "2025-04-15" ->
            <<"2", "0", "2", "5", "-", "0", "4", "-", "1", "5">>
      [] text = "2025-05-10" ->
            <<"2", "0", "2", "5", "-", "0", "5", "-", "1", "0">>
      [] text = "2025-06-01" ->
            <<"2", "0", "2", "5", "-", "0", "6", "-", "0", "1">>

UpperCase ==
    <<"A", "B", "C", "D", "E", "F", "G", "H", "I", "J", "K", "L", "M",
      "N", "O", "P", "Q", "R", "S", "T", "U", "V", "W", "X", "Y", "Z">>

LowerCase ==
    <<"a", "b", "c", "d", "e", "f", "g", "h", "i", "j", "k", "l", "m",
      "n", "o", "p", "q", "r", "s", "t", "u", "v", "w", "x", "y", "z">>

\* The place of c in the sequence chars, 0 when it is not there.
IndexIn(chars, c) ==
    IF \E i \in 1..Len(chars) : chars[i] = c
    THEN CHOOSE i \in 1..Len(chars) : chars[i] = c
    ELSE 0

\* The UTF-16 code unit of a character of the model's texts.
CharCode(c) ==
    IF c = " " THEN 32
    ELSE IF c = "-" THEN 45
    ELSE IF IndexIn(DigitChars, c) > 0 THEN 47 + IndexIn(DigitChars, c)
    ELSE IF IndexIn(UpperCase, c) > 0 THEN 64 + IndexIn(UpperCase, c)
    ELSE 96 + IndexIn(LowerCase, c)

\* String.prototype.toLowerCase()
ToLowerCase(chars) ==
    [i \in 1..Len(chars) |->
        IF IndexIn(UpperCase, chars[i]) > 0
        THEN LowerCase[IndexIn(UpperCase, chars[i])]
        ELSE chars[i]]

\* a < b on strings: the first differing code unit decides, and a proper
\* prefix comes first.
RECURSIVE LessThan(_, _)
LessThan(a, b) ==
    IF b = <<>> THEN FALSE
    ELSE IF a = <<>> THEN TRUE
    ELSE IF CharCode(Head(a)) # CharCode(Head(b))
    THEN CharCode(Head(a)) < CharCode(Head(b))
    ELSE LessThan(Tail(a), Tail(b))

\* String.prototype.includes(part)
Includes(chars, part) ==
    \E i \in 1..(Len(chars) - Len(part) + 1) :
        SubSeq(chars, i, i + Len(part) - 1) = part

\* String.prototype.trim(), for texts whose only white space is the space.
RECURSIVE Trim(_)
Trim(chars) ==
    IF chars = <<>> THEN chars
    ELSE IF Head(chars) = " " THEN Trim(Tail(chars))
    ELSE IF chars[Len(chars)] = " " THEN Trim(SubSeq(chars, 1, Len(chars) - 1))
    ELSE chars

----------------------------------------------------------------------------
(* The selectors that filter and sort the collection. *)

\* a - b on JavaScript numbers.
Minus(a, b) == IF a = NaN \/ b = NaN THEN NaN ELSE a - b

\* tasks.filter(task => task[field] === value)
FilterByField(ts, field, value) ==
    SelectSeq(ts, LAMBDA task : task[field] = value)

selectTasksByStatus(ts, status) == FilterByField(ts, "status", status)

selectTasksByCategory(ts, category) == FilterByField(ts, "category", category)

selectTasksByPriority(ts, priority) == FilterByField(ts, "priority", priority)

\* The title filter that looks for the trimmed term.
FilterByTitle_Trimmed(ts, searchTerm) ==
    IF Trim(Chars(searchTerm)) = <<>> THEN ts
    ELSE LET term == ToLowerCase(Trim(Chars(searchTerm)))
         IN  SelectSeq(ts, LAMBDA task :
                            Includes(ToLowerCase(Chars(task.title)), term))

\* if (!searchTerm.trim()) return tasks; then the filter on
\* task.title.toLowerCase().includes(searchTerm.toLowerCase())
FilterByTitle(ts, searchTerm) ==
    IF Trim(Chars(searchTerm)) = <<>> THEN ts
    ELSE LET term == ToLowerCase(Chars(searchTerm))
         IN  SelectSeq(ts, LAMBDA task :
                            Includes(ToLowerCase(Chars(task.title)), term))

selectTasksBySearchTerm(ts, searchTerm) == FilterByTitle(ts, searchTerm)

\* priorityValue in the alphabetical order of the priorities.
PriorityValue_Alphabetical(priority) ==
    CASE priority = "high" -> 0
      [] priority = "low" -> 1
      [] priority = "medium" -> 2
      [] OTHER -> NaN

\* priorityValue[priority]; a text that is no priority gives undefined,
\* which is NaN in the difference.
PriorityValue(priority) ==
    CASE priority = "high" -> 0
      [] priority = "medium" -> 1
      [] priority = "low" -> 2
      [] OTHER -> NaN

\* The text of the field with its case kept.
LowerText_CaseKept(task, field) ==
    IF field = "id" THEN NumberToString(task.id) ELSE Chars(task[field])

\* String(task[field]).toLowerCase()
LowerText(task, field) ==
    ToLowerCase(IF field = "id" THEN NumberToString(task.id)
                ELSE Chars(task[field]))

\* The comparator that ignores the direction.
CompareByField_Ascending(a, b, field, direction) ==
    IF field = "deadline"
    THEN Minus(GetTime(a.deadline), GetTime(b.deadline))
    ELSE IF field = "priority"
    THEN Minus(PriorityValue(a.priority), PriorityValue(b.priority))
    ELSE IF LessThan(LowerText(a, field), LowerText(b, field)) THEN -1
    ELSE IF LessThan(LowerText(b, field), LowerText(a, field)) THEN 1
    ELSE 0

\* The comparator of selectTasksSortedByField(field, direction).
CompareByField(a, b, field, direction) ==
    IF field = "deadline"
    THEN IF direction = "asc"
         THEN Minus(GetTime(a.deadline), GetTime(b.deadline))
         ELSE Minus(GetTime(b.deadline), GetTime(a.deadline))
    ELSE IF field = "priority"
    THEN IF direction = "asc"
         THEN Minus(PriorityValue(a.priority), PriorityValue(b.priority))
         ELSE Minus(PriorityValue(b.priority), PriorityValue(a.priority))
    ELSE IF LessThan(LowerText(a, field), LowerText(b, field))
    THEN IF direction = "asc" THEN -1 ELSE 1
    ELSE IF LessThan(LowerText(b, field), LowerText(a, field))
    THEN IF direction = "asc" THEN 1 ELSE -1
    ELSE 0

\* Insert x into a sequence sorted by the comparator, before the first
\* element it compares below; a comparator result of NaN counts as 0.
RECURSIVE InsertByField(_, _, _, _)
InsertByField(x, sorted, field, direction) ==
    IF sorted = <<>> THEN <<x>>
    ELSE LET c == CompareByField(x, Head(sorted), field, direction)
         IN  IF c # NaN /\ c < 0
             THEN <<x>> \o sorted
             ELSE <<Head(sorted)>>
                  \o InsertByField(x, Tail(sorted), field, direction)

\* [...tasks].sort(comparator): a stable sort.
RECURSIVE SortByField(_, _, _)
SortByField(ts, field, direction) ==
    IF ts = <<>> THEN <<>>
    ELSE InsertByField(ts[Len(ts)],
                       SortByField(SubSeq(ts, 1, Len(ts) - 1), field, direction),
                       field, direction)

selectTasksSortedByField(ts, field, direction) ==
    SortByField(ts, field, direction)

selectTasksSortedByDeadline(ts) ==
    SortBy(ts, [i \in 1..Len(ts) |-> GetTime(ts[i].deadline)])

\* priorityValue[task.priority] of each task.
PriorityKeys(ts) ==
    [i \in 1..Len(ts) |-> PriorityValue(ts[i].priority)]

selectTasksSortedByPriority(ts) == SortBy(ts, PriorityKeys(ts))

----------------------------------------------------------------------------
(* Inputs of the model. *)

\* Payloads of addTask: task data without an id.
Payloads ==
    { [title |-> "New task", status |-> "pending", deadline |-> "2025-07-15",
       category |-> "work", priority |-> "medium"],
      [title |-> "", status |-> "completed", deadline |-> "2025-04-01",
       category |-> "other", priority |-> "low"],
      [title |-> "Buy milk", status |-> "pending", deadline |-> "2025-04-05",
       category |-> "shopping", priority |-> "high"] }

\* Ids the operations are called with: two of the sample, the first id the
\* sample leaves unused, and one beyond it.
OpIds == {1, 3, 8}

\* Payloads of updateTask: an id and some of the fields.
\* Ids updateTask is called with: one of the sample and one it leaves unused.
UpdateIds == {3, 8}

Partials ==
    { [id |-> i, title |-> "Fixed login bug"] : i \in UpdateIds }
    \cup { [id |-> i, status |-> "completed", priority |-> "low"] : i \in UpdateIds }

\* Payloads of updateTaskOrder.
TaskIdLists == { <<7, 1>>, <<>>, <<3, 9, 3, 1>>, <<2, 1, 3, 4, 5, 6, 7>> }

\* The write outcomes still allowed: at most MaxWriteFailures failing writes.
Outcomes == IF writeFailures < MaxWriteFailures THEN WriteOutcomes ELSE {"ok"}

----------------------------------------------------------------------------
(* The state machine. *)

Current == State(tasks, nextId, deletedIds)

Snapshot ==
    [tasks |-> tasks, nextId |-> nextId, deletedIds |-> deletedIds,
     localStorage |-> localStorage]

\* No derived view has been computed.
NoView == [selector |-> "none"]

\* The record of the ids drawn from nextId, after operation op gave r: a
\* create that found the pool empty drew the id of the task it appended;
\* `ever` holds the ids drawn since the process started, `sinceReset` those
\* drawn since the last reset that went through.
DrawnAfter(r, op) ==
    IF r.threw THEN drawn
    ELSE IF op = "addTask" /\ deletedIds = <<>>
    THEN LET id == r.state.tasks[Len(r.state.tasks)].id
         IN  [ever |-> Append(drawn.ever, id),
              sinceReset |-> Append(drawn.sinceReset, id)]
    ELSE IF op = "resetToSampleData"
    THEN [drawn EXCEPT !.sinceReset = <<>>]
    ELSE drawn

\* store.dispatch(action): the slice runs the reducer on a draft of the
\* state; the draft becomes the state unless the reducer throws, and then
\* the error reaches the caller of dispatch.  result is what the reducer,
\* run once, gives; bound is the number of steps the run may have; shown is
\* what the dispatching component leaves on record.
DispatchShowing(bound, result, op, arg, w, shown) ==
    /\ steps < bound
    /\ \E r \in {result} :
        /\ tasks' = IF r.threw THEN tasks ELSE r.state.tasks
        /\ nextId' = IF r.threw THEN nextId ELSE r.state.nextId
        /\ deletedIds' = IF r.threw THEN deletedIds ELSE r.state.deletedIds
        /\ localStorage' = r.storage
        /\ thrown' = r.threw
        /\ last' = [op |-> op, arg |-> arg, calls |-> r.calls,
                    w |-> IF r.calls = 0 THEN "none" ELSE w]
        /\ prev' = Snapshot
        /\ steps' = steps + 1
        /\ writeFailures' = IF r.calls > 0 /\ w # "ok"
                            THEN writeFailures + 1 ELSE writeFailures
        /\ drawn' = DrawnAfter(r, op)
        /\ view' = shown

\* A dispatch that no component records.
DispatchWithin(bound, result, op, arg, w) ==
    DispatchShowing(bound, result, op, arg, w, view)

Dispatch(result, op, arg, w) == DispatchWithin(MaxSteps, result, op, arg, w)

AddTask ==
    \E payload \in Payloads, w \in Outcomes :
        Dispatch(addTask(Current, localStorage, payload, w), "addTask", payload, w)

UpdateTask ==
    \E payload \in Partials, w \in Outcomes :
        Dispatch(updateTask(Current, localStorage, payload, w), "updateTask", payload, w)

ToggleTaskStatus ==
    \E id \in OpIds, w \in Outcomes :
        Dispatch(toggleTaskStatus(Current, localStorage, id, w), "toggleTaskStatus", id, w)

DeleteTask ==
    \E id \in OpIds, w \in Outcomes :
        Dispatch(deleteTask(Current, localStorage, id, w), "deleteTask", id, w)

UpdateTaskOrder ==
    \E taskIds \in TaskIdLists, w \in Outcomes :
        Dispatch(updateTaskOrder(Current, localStorage, taskIds, w),
                 "updateTaskOrder", taskIds, w)

ResetToSampleData ==
    /\ steps < MaxSteps
    /\ \E accessible \in BOOLEAN :
        Dispatch(resetToSampleData(Current, localStorage, accessible),
                 "resetToSampleData", accessible, "ok")

\* The process starts with the storage holding `storage`: initialState is
\* { ...loadTasksFromStorage(), deletedIds: [] }.
StartProcess(storage, accessible, op) ==
    LET loaded == LoadTasksFromStorage(storage, accessible)
    IN  /\ tasks' = loaded.tasks
        /\ nextId' = loaded.nextId
        /\ deletedIds' = <<>>
        /\ localStorage' = storage
        /\ thrown' = FALSE
        /\ last' = [op |-> op, arg |-> accessible, calls |-> 0, w |-> "none"]
        /\ drawn' = [ever |-> <<>>, sinceReset |-> <<>>]
        /\ view' = NoView

\* The page is closed and opened again: the storage is what it was.
Restart ==
    /\ steps < MaxSteps
    /\ StartProcess(localStorage, TRUE, "restart")
    /\ prev' = Snapshot
    /\ steps' = steps + 1
    /\ UNCHANGED writeFailures

\* The first start of the process, on an empty storage.
Init ==
    /\ localStorage = [tasks |-> NullEntry, nextId |-> NullEntry]
    /\ tasks = LoadTasksFromStorage(localStorage, TRUE).tasks
    /\ nextId = LoadTasksFromStorage(localStorage, TRUE).nextId
    /\ deletedIds = <<>>
    /\ thrown = FALSE
    /\ last = [op |-> "init", arg |-> TRUE, calls |-> 0, w |-> "none"]
    /\ prev = [tasks |-> tasks, nextId |-> nextId, deletedIds |-> deletedIds,
               localStorage |-> localStorage]
    /\ steps = 0
    /\ writeFailures = 0
    /\ drawn = [ever |-> <<>>, sinceReset |-> <<>>]
    /\ view = NoView

Next ==
    \/ AddTask
    \/ UpdateTask
    \/ ToggleTaskStatus
    \/ DeleteTask
    \/ UpdateTaskOrder
    \/ ResetToSampleData
    \/ Restart

Spec == Init /\ [][Next]_vars

\* The operations of the store alone, with no restart of the process.
NextOps ==
    \/ AddTask
    \/ UpdateTask
    \/ ToggleTaskStatus
    \/ DeleteTask
    \/ UpdateTaskOrder
    \/ ResetToSampleData

SpecOps == Init /\ [][NextOps]_vars

\* Longer runs of create and delete alone, with one payload and every
\* storage write succeeding: the operations that move ids between the
\* collection, nextId and the deleted-id pool.
IdsAddTask ==
    /\ steps < MaxIdSteps
    /\ \E payload \in {p \in Payloads : p.title = "New task"} :
        DispatchWithin(MaxIdSteps, addTask(Current, localStorage, payload, "ok"),
                       "addTask", payload, "ok")

IdsDeleteTask ==
    /\ steps < MaxIdSteps
    /\ \E id \in OpIds :
        DispatchWithin(MaxIdSteps, deleteTask(Current, localStorage, id, "ok"),
                       "deleteTask", id, "ok")

NextIds == IdsAddTask \/ IdsDeleteTask

SpecIds == Init /\ [][NextIds]_vars

\* Only create operations, from the seeded state.
NextCreate == AddTask

SpecCreate == Init /\ [][NextCreate]_vars

----------------------------------------------------------------------------
(* The start of the process on a storage left by anything: an earlier run, *)
(* another version of the program, the user.  No state of an earlier run   *)
(* is kept: prev stays what it was.                                        *)

CharsEntry(chars) == [kind |-> "chars", body |-> chars]

StoredTask ==
    [id |-> 101, title |-> "Task from localStorage", status |-> "pending",
     deadline |-> "2025-01-01", category |-> "work", priority |-> "medium"]

TasksEntries ==
    { NullEntry,
      [kind |-> "empty", body |-> <<>>],
      [kind |-> "garbage", body |-> <<>>],
      [kind |-> "object", body |-> <<>>],
      CharsEntry(<<"4", "2">>),
      CharsEntry(<<"t", "a", "s", "k", "s">>),
      JSONStringify(<<>>),
      JSONStringify(<<StoredTask>>),
      JSONStringify(SampleTasks),
      JSONStringify(SubSeq(SampleTasks, 2, 3)) }

NextIdEntries ==
    { NullEntry,
      [kind |-> "empty", body |-> <<>>],
      [kind |-> "garbage", body |-> <<>>],
      CharsEntry(<<"a", "b", "c">>),
      CharsEntry(<<"N", "a", "N">>),
      CharsEntry(<<"8">>),
      CharsEntry(<<"4">>),
      CharsEntry(<<"1", "0", "2">>) }

StartStorages == [tasks : TasksEntries, nextId : NextIdEntries]

ProcessStart ==
    \E storage \in StartStorages, accessible \in BOOLEAN :
        /\ StartProcess(storage, accessible, "start")
        /\ UNCHANGED <<prev, steps, writeFailures>>

NextLoad == ProcessStart

SpecLoad == Init /\ [][NextLoad]_vars

\* A collection of `total` tasks with the fields of the sample's tasks in
\* turn and the ids 1 to total, the first `completed` of them completed and
\* the others pending.
Collection(total, completed) ==
    [i \in 1..total |->
        [SampleTasks[((i - 1) % Len(SampleTasks)) + 1] EXCEPT
            !.id = i,
            !.status = IF i <= completed THEN "completed" ELSE "pending"]]

\* Instants at which the statistics are computed: a midnight and a noon
\* (UTC) of a day that is a deadline of the sample, and a morning before
\* every deadline of the sample.
Todays ==
    { DateUTC(2025, 4, 5, 0), DateUTC(2025, 4, 5, 12), DateUTC(2025, 3, 25, 9) }

\* The process has started from a storage that held a saved collection.
InitStatistics ==
    \E total \in 0..MaxTotal :
        \E completed \in 0..total :
            /\ tasks = Collection(total, completed)
            /\ nextId = IF total < SampleNextId THEN SampleNextId ELSE total + 1
            /\ deletedIds = <<>>
            /\ localStorage = [tasks |-> JSONStringify(tasks),
                               nextId |-> ToStringEntry(nextId)]
            /\ thrown = FALSE
            /\ last = [op |-> "start", arg |-> TRUE, calls |-> 0, w |-> "none"]
            /\ prev = [tasks |-> tasks, nextId |-> nextId,
                       deletedIds |-> deletedIds, localStorage |-> localStorage]
            /\ steps = 0
            /\ writeFailures = 0
            /\ drawn = [ever |-> <<>>, sinceReset |-> <<>>]
            /\ view = NoView

\* The dashboard reads the statistics of the collection at the instant
\* today.  createSelector keeps the result of the last computation and gives
\* it again, without computing, as long as the collection is the same.
SelectTaskStatistics ==
    \E today \in Todays :
        /\ view' = [selector |-> "selectTaskStatistics", today |-> today,
                    result |-> IF view.selector = "selectTaskStatistics"
                               THEN view.result
                               ELSE selectTaskStatistics(tasks, today)]
        /\ UNCHANGED <<tasks, nextId, deletedIds, localStorage, thrown, last,
                       prev, steps, writeFailures, drawn>>

NextStatistics == SelectTaskStatistics

SpecStatistics == InitStatistics /\ [][NextStatistics]_vars

\* Tasks of the collections that are filtered and sorted: three of the
\* sample, one whose title differs from the first's only in case, and one
\* with id 10 that shares the first's deadline.
ViewTasks ==
    { SampleTasks[1], SampleTasks[2], SampleTasks[5],
      [id |-> 3, title |-> "FIX LOGIN BUG", status |-> "completed",
       deadline |-> "2025-04-15", category |-> "work", priority |-> "low"],
      [id |-> 10, title |-> "fix Login page", status |-> "pending",
       deadline |-> "2025-05-10", category |-> "personal", priority |-> "low"] }

\* The sequences of up to MaxViewLen different tasks of ViewTasks.
ViewCollections ==
    UNION { {ts \in [1..n -> ViewTasks] :
                \A i, j \in 1..n : i # j => ts[i] # ts[j]} : n \in 0..MaxViewLen }

SortFields == {"id", "title", "status", "category", "priority", "deadline"}

Directions == {"asc", "desc"}

\* Texts typed into the search box.
SearchTerms == {"", "  ", "LOGIN", "xyz", "bug "}

\* The process has started from a storage that held a saved collection.
InitViews ==
    \E ts \in ViewCollections :
        /\ tasks = ts
        /\ nextId = 11
        /\ deletedIds = <<>>
        /\ localStorage = [tasks |-> JSONStringify(tasks),
                           nextId |-> ToStringEntry(nextId)]
        /\ thrown = FALSE
        /\ last = [op |-> "start", arg |-> TRUE, calls |-> 0, w |-> "none"]
        /\ prev = [tasks |-> tasks, nextId |-> nextId,
                   deletedIds |-> deletedIds, localStorage |-> localStorage]
        /\ steps = 0
        /\ writeFailures = 0
        /\ drawn = [ever |-> <<>>, sinceReset |-> <<>>]
        /\ view = NoView

\* What a selector leaves as it is: everything but the view.
store == <<tasks, nextId, deletedIds, localStorage, thrown, last, prev,
           steps, writeFailures, drawn>>

SelectTasksSortedByField ==
    \E field \in SortFields, direction \in Directions :
        /\ view' = [selector |-> "selectTasksSortedByField", field |-> field,
                    direction |-> direction,
                    result |-> selectTasksSortedByField(tasks, field, direction)]
        /\ UNCHANGED store

SelectTasksSortedByDeadline ==
    /\ view' = [selector |-> "selectTasksSortedByDeadline",
                result |-> selectTasksSortedByDeadline(tasks)]
    /\ UNCHANGED store

SelectTasksSortedByPriority ==
    /\ view' = [selector |-> "selectTasksSortedByPriority",
                result |-> selectTasksSortedByPriority(tasks)]
    /\ UNCHANGED store

SelectTasksBySearchTerm ==
    \E searchTerm \in SearchTerms :
        /\ view' = [selector |-> "selectTasksBySearchTerm",
                    searchTerm |-> searchTerm,
                    result |-> selectTasksBySearchTerm(tasks, searchTerm)]
        /\ UNCHANGED store

NextViews ==
    \/ SelectTasksSortedByField
    \/ SelectTasksSortedByDeadline
    \/ SelectTasksSortedByPriority
    \/ SelectTasksBySearchTerm

SpecViews == InitViews /\ [][NextViews]_vars

----------------------------------------------------------------------------
(* The task form: handleSubmit validates the fields by the rules they were *)
(* registered with and calls onSubmit only when every rule passes.         *)

MaxFormSteps == 1

\* minLength of the title.
MinTitleLength == 3

\* Titles typed into the form.
FormTitles == {"", "ab", "xyz"}

\* Dates picked in the form.
FormDeadlines == {"2025-04-01", "2025-04-05", "2025-04-10"}

\* Instants at which the form is submitted, in hours since the epoch.
Nows == {DateUTC(2025, 4, 5, 12), DateUTC(2025, 4, 5, 22)}

\* Hours the browser's time zone is ahead of UTC.
TimezoneOffsets == {-5, 0, 8}

\* Positions of the tasks the form edits; 0 is the form that adds a task.
FormTasks == {0, 1, 5}

\* today = new Date(); today.setHours(0, 0, 0, 0): the start of the local
\* day, as an instant.
StartOfToday(now, offset) ==
    ((now + offset) \div HoursPerDay) * HoursPerDay - offset

\* required and minLength of register('title').
ValidateTitle(value) ==
    /\ value # ""
    /\ Len(Chars(value)) >= MinTitleLength

\* required and validate of register('deadline'): date >= today.
ValidateDeadline(value, now, offset) ==
    /\ value # ""
    /\ GetTime(value) # NaN
    /\ GetTime(value) >= StartOfToday(now, offset)

\* The user submits the form, by the button or by Ctrl+S.
SubmitTaskForm ==
    /\ steps < MaxFormSteps
    /\ \E i \in FormTasks \cap (0..Len(tasks)), title \in FormTitles,
          deadline \in FormDeadlines, now \in Nows,
          offset \in TimezoneOffsets, w \in Outcomes :
        LET isEditMode == i > 0
            data == [title |-> title,
                     status |-> IF isEditMode THEN tasks[i].status ELSE "pending",
                     deadline |-> deadline,
                     category |-> IF isEditMode THEN tasks[i].category ELSE "work",
                     priority |-> IF isEditMode THEN tasks[i].priority
                                  ELSE "medium"]
            shown == [selector |-> "TaskForm",
                      task |-> IF isEditMode THEN <<tasks[i]>> ELSE <<>>,
                      data |-> data, now |-> now, offset |-> offset]
        IN  IF ValidateTitle(title) /\ ValidateDeadline(deadline, now, offset)
            THEN IF isEditMode
                 THEN LET payload == Spread([id |-> tasks[i].id], data)
                      IN  DispatchShowing(MaxFormSteps,
                                          updateTask(Current, localStorage, payload, w),
                                          "updateTask", payload, w, shown)
                 ELSE DispatchShowing(MaxFormSteps,
                                      addTask(Current, localStorage, data, w),
                                      "addTask", data, w, shown)
            ELSE /\ view' = shown
                 /\ last' = [op |-> "none", arg |-> data, calls |-> 0, w |-> "none"]
                 /\ prev' = Snapshot
                 /\ steps' = steps + 1
                 /\ UNCHANGED <<tasks, nextId, deletedIds, localStorage, thrown,
                                writeFailures, drawn>>

NextForm == SubmitTaskForm

SpecForm == Init /\ [][NextForm]_vars

----------------------------------------------------------------------------
(* The task list: the component keeps the filters, the search term and the *)
(* sort in its own state and computes the list it displays from them and   *)
(* the collection at every render.                                         *)

MaxListLen == 2

\* The sequences of up to MaxListLen different tasks of ViewTasks.
ListCollections ==
    UNION { {ts \in [1..n -> ViewTasks] :
                \A i, j \in 1..n : i # j => ts[i] # ts[j]} : n \in 0..MaxListLen }

\* Options of the three selects that the model chooses.
StatusFilters == {"all", "pending", "completed"}

CategoryFilters == {"all", "work"}

PriorityFilters == {"all", "low"}

\* Texts typed into the search box of the list.
ListSearchTerms == {"", "  ", "LOGIN"}

\* The comparator of the list's sort.
TaskListCompare(a, b, sortField, sortDirection) ==
    IF sortField = "deadline"
    THEN LET dateA == GetTime(a.deadline)
             dateB == GetTime(b.deadline)
         IN  IF sortDirection = "asc" THEN Minus(dateA, dateB)
             ELSE Minus(dateB, dateA)
    ELSE IF sortField = "priority"
    THEN LET valueA == PriorityValue(a.priority)
             valueB == PriorityValue(b.priority)
         IN  IF sortDirection = "asc" THEN Minus(valueA, valueB)
             ELSE Minus(valueB, valueA)
    ELSE LET valueA == LowerText(a, sortField)
             valueB == LowerText(b, sortField)
         IN  IF LessThan(valueA, valueB)
             THEN IF sortDirection = "asc" THEN -1 ELSE 1
             ELSE IF LessThan(valueB, valueA)
             THEN IF sortDirection = "asc" THEN 1 ELSE -1
             ELSE 0

\* Insert x into a sequence sorted by the list's comparator, before the
\* first element it compares below.
RECURSIVE TaskListInsert(_, _, _, _)
TaskListInsert(x, sorted, sortField, sortDirection) ==
    IF sorted = <<>> THEN <<x>>
    ELSE LET c == TaskListCompare(x, Head(sorted), sortField, sortDirection)
         IN  IF c # NaN /\ c < 0
             THEN <<x>> \o sorted
             ELSE <<Head(sorted)>>
                  \o TaskListInsert(x, Tail(sorted), sortField, sortDirection)

\* [...filteredTasks].sort(comparator): a stable sort.
RECURSIVE TaskListSort(_, _, _)
TaskListSort(ts, sortField, sortDirection) ==
    IF ts = <<>> THEN <<>>
    ELSE TaskListInsert(ts[Len(ts)],
                        TaskListSort(SubSeq(ts, 1, Len(ts) - 1),
                                     sortField, sortDirection),
                        sortField, sortDirection)

\* The list that searches the whole collection, whatever the selects say.
TaskListTasks_SearchAll(allTasks, ui) ==
    LET filteredTasks == IF Trim(Chars(ui.searchTerm)) = <<>> THEN allTasks
                         ELSE FilterByTitle(allTasks, ui.searchTerm)
    IN  IF ui.sortField = "" THEN filteredTasks
        ELSE TaskListSort(filteredTasks, ui.sortField, ui.sortDirection)

\* filteredByStatus, filteredByCategory, filteredByPriority, filteredTasks
\* and tasks of the component, for the collection and the component's state.
TaskListTasks(allTasks, ui) ==
    LET pendingTasks == selectTasksByStatus(allTasks, "pending")
        completedTasks == selectTasksByStatus(allTasks, "completed")
        filteredByStatus ==
            IF ui.statusFilter = "all" THEN allTasks
            ELSE IF ui.statusFilter = "pending" THEN pendingTasks
            ELSE completedTasks
        filteredByCategory ==
            IF ui.categoryFilter = "all" THEN filteredByStatus
            ELSE FilterByField(filteredByStatus, "category", ui.categoryFilter)
        filteredByPriority ==
            IF ui.priorityFilter = "all" THEN filteredByCategory
            ELSE FilterByField(filteredByCategory, "priority", ui.priorityFilter)
        filteredTasks ==
            IF Trim(Chars(ui.searchTerm)) = <<>> THEN filteredByPriority
            ELSE FilterByTitle(filteredByPriority, ui.searchTerm)
    IN  IF ui.sortField = "" THEN filteredTasks
        ELSE TaskListSort(filteredTasks, ui.sortField, ui.sortDirection)

\* A render of the component in state ui.
Render(ui) ==
    [selector |-> "TaskList",
     statusFilter |-> ui.statusFilter, categoryFilter |-> ui.categoryFilter,
     priorityFilter |-> ui.priorityFilter, searchTerm |-> ui.searchTerm,
     sortField |-> ui.sortField, sortDirection |-> ui.sortDirection,
     result |-> TaskListTasks(tasks, ui)]

\* The component's state when it mounts.
InitialListState ==
    [statusFilter |-> "all", categoryFilter |-> "all", priorityFilter |-> "all",
     searchTerm |-> "", sortField |-> "", sortDirection |-> "asc"]

\* The list is mounted over a collection loaded from storage.
InitList ==
    \E ts \in ListCollections :
        /\ tasks = ts
        /\ nextId = 11
        /\ deletedIds = <<>>
        /\ localStorage = [tasks |-> JSONStringify(ts), nextId |-> ToStringEntry(11)]
        /\ thrown = FALSE
        /\ last = [op |-> "init", arg |-> TRUE, calls |-> 0, w |-> "none"]
        /\ prev = [tasks |-> tasks, nextId |-> nextId, deletedIds |-> deletedIds,
                   localStorage |-> localStorage]
        /\ steps = 0
        /\ writeFailures = 0
        /\ drawn = [ever |-> <<>>, sinceReset |-> <<>>]
        /\ view = Render(InitialListState)

SetStatusFilter ==
    \E value \in StatusFilters :
        /\ view' = Render([view EXCEPT !.statusFilter = value])
        /\ UNCHANGED store

SetCategoryFilter ==
    \E value \in CategoryFilters :
        /\ view' = Render([view EXCEPT !.categoryFilter = value])
        /\ UNCHANGED store

SetPriorityFilter ==
    \E value \in PriorityFilters :
        /\ view' = Render([view EXCEPT !.priorityFilter = value])
        /\ UNCHANGED store

SetSearchTerm ==
    \E value \in ListSearchTerms :
        /\ view' = Render([view EXCEPT !.searchTerm = value])
        /\ UNCHANGED store

\* A click on a column header.
HandleSort ==
    \E field \in SortFields :
        /\ view' = Render(IF view.sortField = field
                          THEN [view EXCEPT !.sortDirection =
                                    IF @ = "asc" THEN "desc" ELSE "asc"]
                          ELSE [view EXCEPT !.sortField = field,
                                            !.sortDirection = "asc"])
        /\ UNCHANGED store

\* The shortcut that clears the filters and the search, not the sort.
ClearFilters ==
    /\ view' = Render([view EXCEPT !.statusFilter = "all",
                                   !.categoryFilter = "all",
                                   !.priorityFilter = "all",
                                   !.searchTerm = ""])
    /\ UNCHANGED store

NextList ==
    \/ SetStatusFilter
    \/ SetCategoryFilter
    \/ SetPriorityFilter
    \/ SetSearchTerm
    \/ HandleSort
    \/ ClearFilters

SpecList == InitList /\ [][NextList]_vars

----------------------------------------------------------------------------
(* Vocabulary of the properties. *)

UniqueIds(ts) ==
    \A i, j \in 1..Len(ts) : i # j => ts[i].id # ts[j].id

Range(seq) == {seq[i] : i \in 1..Len(seq)}

Min(S) == CHOOSE x \in S : \A y \in S : x <= y

Count(seq, x) == Cardinality({i \in 1..Len(seq) : seq[i] = x})

LastTask == tasks[Len(tasks)]

PrevState == State(prev.tasks, prev.nextId, prev.deletedIds)

\* The operations that change the collection.
Mutations ==
    {"addTask", "updateTask", "toggleTaskStatus", "deleteTask", "updateTaskOrder"}

\* The id an updateTask or toggleTaskStatus was called with.
TargetId == IF last.op = "updateTask" THEN last.arg.id ELSE last.arg

\* The last operation was an update or toggle of an id no task had.
MissedTarget ==
    /\ last.op \in {"updateTask", "toggleTaskStatus"}
    /\ FindIndex(prev.tasks, TargetId) = -1

\* What the reducer of the last operation gives from the state before it
\* when the storage write has outcome w.
Replay(w) ==
    CASE last.op = "addTask" ->
            addTask(PrevState, prev.localStorage, last.arg, w)
      [] last.op = "updateTask" ->
            updateTask(PrevState, prev.localStorage, last.arg, w)
      [] last.op = "toggleTaskStatus" ->
            toggleTaskStatus(PrevState, prev.localStorage, last.arg, w)
      [] last.op = "deleteTask" ->
            deleteTask(PrevState, prev.localStorage, last.arg, w)
      [] last.op = "updateTaskOrder" ->
            updateTaskOrder(PrevState, prev.localStorage, last.arg, w)

\* The storage holds exactly the serialized state.
StorageInSync ==
    /\ localStorage.tasks = JSONStringify(tasks)
    /\ localStorage.nextId = ToStringEntry(nextId)

----------------------------------------------------------------------------
(* C1: in every state reached from the seeded state by create, update,     *)
(* toggleStatus, delete (of any id, live or not, also repeatedly), reorder *)
(* and resetToSample, no two tasks of the live collection have the same    *)
(* id.  Checked under SpecOps.                                             *)
C1_UniqueIdsAlways == UniqueIds(tasks)

(* C2: in a run of create operations only, from the seeded state, the ids  *)
(* of the live collection are pairwise distinct after each create.         *)
(* Checked under SpecCreate.                                               *)
C2_CreateOnlyUniqueIds ==
    last.op = "addTask" => UniqueIds(tasks)

C2_Witness ==
    /\ last.op = "addTask"
    /\ steps = MaxSteps
    /\ Len(tasks) = Len(SampleTasks) + MaxSteps

(* C3: when the deleted-id pool is not empty, create gives the new task    *)
(* the smallest id of the pool, takes exactly that one entry out of the    *)
(* pool and leaves nextId unchanged.                                       *)
C3_CreateReusesSmallestDeletedId ==
    (last.op = "addTask" /\ prev.deletedIds # <<>>) =>
        LET smallest == Min(Range(prev.deletedIds))
        IN  /\ Len(tasks) = Len(prev.tasks) + 1
            /\ LastTask.id = smallest
            /\ nextId = prev.nextId
            /\ Len(deletedIds) = Len(prev.deletedIds) - 1
            /\ \A d \in Range(prev.deletedIds) :
                  Count(deletedIds, d) =
                      Count(prev.deletedIds, d) - (IF d = smallest THEN 1 ELSE 0)

C3_Witness ==
    /\ last.op = "addTask"
    /\ prev.deletedIds = <<3, 1>>
    /\ LastTask.id = 1
    /\ deletedIds = <<3>>
    /\ nextId = SampleNextId

(* C4: when the deleted-id pool is empty, create gives the new task the id *)
(* nextId, increases nextId by exactly 1 and appends the task, with the    *)
(* given title, status, deadline, category and priority, as the last       *)
(* element; the earlier elements and their order are unchanged.            *)
C4_CreateDrawsNextIdAndAppends ==
    (last.op = "addTask" /\ prev.deletedIds = <<>>) =>
        /\ Len(tasks) = Len(prev.tasks) + 1
        /\ SubSeq(tasks, 1, Len(prev.tasks)) = prev.tasks
        /\ DOMAIN LastTask = {"id"} \cup DOMAIN last.arg
        /\ LastTask.id = prev.nextId
        /\ \A k \in DOMAIN last.arg : LastTask[k] = last.arg[k]
        /\ nextId = prev.nextId + 1
        /\ deletedIds = <<>>

C4_Witness ==
    /\ last.op = "addTask"
    /\ prev.deletedIds = <<>>
    /\ prev.tasks # SampleTasks
    /\ Len(prev.tasks) = Len(SampleTasks)
    /\ LastTask.title = "New task"

(* C5, as stated: right after each create, update, toggleStatus, delete    *)
(* and reorder whose storage writes do not fail, the stored 'tasks' entry  *)
(* is the serialized collection and the stored 'nextId' entry the text of  *)
(* nextId.                                                                 *)
C5_StorageInSyncAfterEveryOperation ==
    (last.op \in Mutations /\ last.w \notin {"failTasks", "failNextId"}) =>
        StorageInSync

(* C5, amended: the same, for create, delete and reorder and for an update *)
(* or toggleStatus of an id that a live task has.                          *)
C5_StorageInSyncAfterEffectiveOperation ==
    (/\ last.op \in Mutations
     /\ ~MissedTarget
     /\ last.w \notin {"failTasks", "failNextId"}) =>
        StorageInSync

C5_Witness ==
    /\ last.op = "toggleTaskStatus"
    /\ ~MissedTarget
    /\ last.w = "ok"
    /\ writeFailures > 0
    /\ prev.localStorage.tasks # JSONStringify(prev.tasks)
    /\ StorageInSync

(* C6: after operations (resetToSample among them) whose storage writes    *)
(* all succeeded, a restart of the process gives the collection and nextId *)
(* that were in memory just before it and an empty deleted-id pool, so     *)
(* that a create after the restart draws nextId and takes no id from the   *)
(* pool of before the restart.                                             *)
C6_RestartRestoresState ==
    (last.op = "restart" /\ writeFailures = 0) =>
        /\ tasks = prev.tasks
        /\ nextId = prev.nextId
        /\ deletedIds = <<>>
        /\ \A payload \in Payloads :
              LET r == addTask(Current, localStorage, payload, "ok")
              IN  /\ r.state.tasks[Len(r.state.tasks)].id = nextId
                  /\ r.state.nextId = nextId + 1

C6_Witness ==
    /\ last.op = "restart"
    /\ writeFailures = 0
    /\ prev.deletedIds = <<3>>
    /\ Len(tasks) = Len(SampleTasks) - 1
    /\ nextId = SampleNextId

\* Both entries are there and well-formed: the JSON text of an array and
\* the decimal text of a number.
WellFormedStorage(storage) ==
    /\ storage.tasks.kind = "array"
    /\ storage.nextId.kind = "chars"
    /\ IsNumberChars(storage.nextId.body)

(* C7: at the start of the process the state is loaded from the storage   *)
(* only if both entries are there and well-formed; in every other case (an *)
(* entry missing, a text that is no JSON, a nextId that is no number, a    *)
(* tasks value that is no array, a storage that cannot be read) the state  *)
(* is the sample of 7 tasks with nextId 8; no error reaches the caller.    *)
(* Checked under SpecLoad.                                                 *)
C7_StartLoadsOnlyWellFormedStorage ==
    last.op = "start" =>
        /\ ~thrown
        /\ deletedIds = <<>>
        /\ IF last.arg /\ WellFormedStorage(localStorage)
           THEN /\ tasks = JSONParse(localStorage.tasks).value
                /\ nextId = ParseIntChars(localStorage.nextId.body)
           ELSE /\ tasks = SampleTasks
                /\ nextId = SampleNextId

(* C8: when the storage write of a create, update, toggleStatus, delete or *)
(* reorder fails, the operation still completes: collection, nextId and    *)
(* deleted-id pool are those the same operation leaves when the write      *)
(* succeeds, no error reaches the caller, and the write is not tried       *)
(* again (the entry whose write failed keeps its old value, and setItem    *)
(* is called once per entry at most).                                      *)
C8_WriteFailureIsSwallowed ==
    (last.op \in Mutations /\ last.w \in {"failTasks", "failNextId"}) =>
        /\ ~thrown
        /\ Current = Replay("ok").state
        /\ last.w = "failTasks" =>
              /\ last.calls = 1
              /\ localStorage = prev.localStorage
        /\ last.w = "failNextId" =>
              /\ last.calls = 2
              /\ localStorage.tasks = JSONStringify(tasks)
              /\ localStorage.nextId = prev.localStorage.nextId

C8_Witness ==
    /\ last.op = "deleteTask"
    /\ last.w = "failTasks"
    /\ Len(tasks) = Len(prev.tasks) - 1
    /\ localStorage.tasks = JSONStringify(prev.tasks)
    /\ ~thrown

(* C9: update(id, partial) on an id that a task has replaces, on the       *)
(* (first) task with that id, exactly the fields that partial holds, and   *)
(* leaves the task's other fields, its id, its place in the collection,    *)
(* every other task, nextId and the deleted-id pool unchanged.             *)
C9_UpdateMergesAndFrames ==
    (last.op = "updateTask" /\ FindIndex(prev.tasks, last.arg.id) # -1) =>
        LET i == FindIndex(prev.tasks, last.arg.id) + 1
        IN  /\ Len(tasks) = Len(prev.tasks)
            /\ \A j \in 1..Len(tasks) : j # i => tasks[j] = prev.tasks[j]
            /\ DOMAIN tasks[i] = DOMAIN prev.tasks[i]
            /\ tasks[i].id = prev.tasks[i].id
            /\ \A k \in DOMAIN tasks[i] :
                  tasks[i][k] = IF k \in DOMAIN last.arg
                                THEN last.arg[k] ELSE prev.tasks[i][k]
            /\ nextId = prev.nextId
            /\ deletedIds = prev.deletedIds

C9_Witness ==
    /\ last.op = "updateTask"
    /\ last.arg.id = 3
    /\ "status" \in DOMAIN last.arg
    /\ FindIndex(prev.tasks, 3) > 0
    /\ tasks # prev.tasks
    /\ tasks[FindIndex(tasks, 3) + 1].title = "Update README documentation"
    /\ tasks[FindIndex(tasks, 3) + 1].status = "completed"

(* C10: update and toggleStatus with an id that no live task has leave the *)
(* collection, nextId and the deleted-id pool unchanged, write nothing to  *)
(* the storage and raise no error.                                         *)
C10_MissingIdIsNoOp ==
    MissedTarget =>
        /\ tasks = prev.tasks
        /\ nextId = prev.nextId
        /\ deletedIds = prev.deletedIds
        /\ localStorage = prev.localStorage
        /\ last.calls = 0
        /\ ~thrown

C10_Witness ==
    /\ MissedTarget
    /\ last.op = "toggleTaskStatus"
    /\ last.arg = 3
    /\ prev.deletedIds = <<3>>
    /\ localStorage.tasks = JSONStringify(tasks)

(* C11: toggleStatus(id) on an id a live task has turns that task's status *)
(* from pending to completed and from completed to pending and changes     *)
(* nothing else: every other field of the task, every other task, the      *)
(* order, nextId and the deleted-id pool stay as they were.  A second      *)
(* toggle of the same id right after gives back the collection, nextId and *)
(* pool of before the first.                                               *)
C11_ToggleFlipsStatusOnly ==
    (last.op = "toggleTaskStatus" /\ FindIndex(prev.tasks, last.arg) # -1) =>
        LET i == FindIndex(prev.tasks, last.arg) + 1
            again == toggleTaskStatus(Current, localStorage, last.arg, "ok")
        IN  /\ Len(tasks) = Len(prev.tasks)
            /\ prev.tasks[i].status = "pending" => tasks[i].status = "completed"
            /\ prev.tasks[i].status = "completed" => tasks[i].status = "pending"
            /\ tasks[i] = [prev.tasks[i] EXCEPT !.status = tasks[i].status]
            /\ \A j \in 1..Len(tasks) : j # i => tasks[j] = prev.tasks[j]
            /\ nextId = prev.nextId
            /\ deletedIds = prev.deletedIds
            /\ ~thrown
            /\ again.state = PrevState
            /\ ~again.threw

\* A second toggle of task 3 has just made it pending again.
C11_Witness ==
    /\ last.op = "toggleTaskStatus"
    /\ last.arg = 3
    /\ FindIndex(prev.tasks, 3) # -1
    /\ prev.tasks[FindIndex(prev.tasks, 3) + 1].status = "completed"
    /\ tasks[FindIndex(tasks, 3) + 1].status = "pending"
    /\ tasks = SampleTasks

(* C12: delete(id) of an id a live task has removes the task with that id: *)
(* the collection gets shorter by exactly one task, no remaining task has  *)
(* the id, the remaining tasks keep their order, the id joins the          *)
(* deleted-id pool and nextId stays what it was.                           *)
C12_DeleteRemovesOneTask ==
    (last.op = "deleteTask" /\ FindIndex(prev.tasks, last.arg) # -1) =>
        /\ Len(tasks) = Len(prev.tasks) - 1
        /\ \A i \in 1..Len(tasks) : tasks[i].id # last.arg
        /\ tasks = SelectSeq(prev.tasks, LAMBDA t : t.id # last.arg)
        /\ deletedIds = Append(prev.deletedIds, last.arg)
        /\ nextId = prev.nextId

\* The ids that n creates in a row from `state` assign, in order.
RECURSIVE CreatedIds(_, _)
CreatedIds(state, n) ==
    IF n = 0 THEN <<>>
    ELSE LET after == addTask(state, localStorage, CHOOSE p \in Payloads : TRUE,
                              "ok").state
         IN  <<after.tasks[Len(after.tasks)].id>> \o CreatedIds(after, n - 1)

(* C13: delete(id) with an id no live task has leaves the collection and   *)
(* nextId unchanged but still adds the id to the deleted-id pool, so later *)
(* creates can be assigned it: the next create is when the id is the       *)
(* smallest of the pool, and one of the next creates, as many as the pool  *)
(* has entries, in any case.                                               *)
C13_DeleteOfAbsentIdPoolsIt ==
    (last.op = "deleteTask" /\ FindIndex(prev.tasks, last.arg) = -1) =>
        /\ tasks = prev.tasks
        /\ nextId = prev.nextId
        /\ deletedIds = Append(prev.deletedIds, last.arg)
        /\ ~thrown
        /\ last.arg = Min(Range(deletedIds)) =>
                CreatedIds(Current, 1) = <<last.arg>>
        /\ last.arg \in Range(CreatedIds(Current, Len(deletedIds)))

\* Id 8, which no task of the sample has, was deleted after id 1.
C13_Witness ==
    /\ last.op = "deleteTask"
    /\ last.arg = 8
    /\ FindIndex(prev.tasks, 8) = -1
    /\ deletedIds = <<1, 8>>
    /\ CreatedIds(Current, 2) = <<1, 8>>

Distinct(seq) ==
    \A i, j \in 1..Len(seq) : i # j => seq[i] # seq[j]

\* The tasks of ts that have the first id of ids, then those that have the
\* second, and so on, each group in the order of ts.
RECURSIVE ListedTasks(_, _)
ListedTasks(ts, ids) ==
    IF ids = <<>> THEN <<>>
    ELSE SelectSeq(ts, LAMBDA t : t.id = Head(ids)) \o ListedTasks(ts, Tail(ids))

(* C14: for every sequence ids of distinct ids, which may leave out live   *)
(* ids and may hold ids no task has, reorder(ids) puts the tasks whose id  *)
(* occurs in ids first, in the order of their ids' positions in ids, and   *)
(* after them all other tasks in the order they had before.                *)
C14_ReorderListedFirstRestStable ==
    (last.op = "updateTaskOrder" /\ Distinct(last.arg)) =>
        tasks = ListedTasks(prev.tasks, last.arg)
                \o SelectSeq(prev.tasks, LAMBDA t : t.id \notin Range(last.arg))

\* reorder([7, 1]) on the sample gives the ids 7, 1, 2, 3, 4, 5, 6.
C14_Witness ==
    /\ last.op = "updateTaskOrder"
    /\ last.arg = <<7, 1>>
    /\ prev.tasks = SampleTasks
    /\ [i \in 1..Len(tasks) |-> tasks[i].id] = <<7, 1, 2, 3, 4, 5, 6>>

(* C15: resetToSample applied in any reachable state yields exactly the    *)
(* fixed sample collection (7 tasks, ids 1 to 7 in order), nextId = 8 and  *)
(* an empty deleted-id pool, and leaves both storage entries removed.      *)
C15_ResetYieldsSample ==
    last.op = "resetToSampleData" =>
        /\ tasks = SampleTasks
        /\ [i \in 1..Len(tasks) |-> tasks[i].id] = <<1, 2, 3, 4, 5, 6, 7>>
        /\ nextId = 8
        /\ deletedIds = <<>>
        /\ localStorage = [tasks |-> NullEntry, nextId |-> NullEntry]

(* C16: in every reachable state, over any sequence of operations with     *)
(* resetToSample among them, nextId is strictly greater than every id that *)
(* an earlier create assigned by drawing from nextId.                      *)
C16_NextIdAboveEveryDrawnId ==
    \A i \in 1..Len(drawn.ever) : nextId > drawn.ever[i]

(* C16 as amended: in every reachable state nextId is strictly greater     *)
(* than every id that a create assigned by drawing from nextId since       *)
(* resetToSample was last applied, or since the process started if it      *)
(* never was.                                                              *)
C16_NextIdAboveIdsDrawnSinceReset ==
    \A i \in 1..Len(drawn.sinceReset) : nextId > drawn.sinceReset[i]

\* A create drew 8, a reset put nextId back to 8, and a create drew 8 again.
C16_Witness ==
    /\ drawn.ever = <<8, 8>>
    /\ drawn.sinceReset = <<8>>
    /\ last.op = "addTask"
    /\ nextId = 9

(* C17: in every reachable state, over any sequence of operations, with    *)
(* deletes of the same id more than once among them, no id in the          *)
(* deleted-id pool is the id of a task in the live collection, so that     *)
(* create never reuses an id that is still live.                           *)
C17_PoolHoldsNoLiveId ==
    \A i \in 1..Len(deletedIds) : FindIndex(tasks, deletedIds[i]) = -1

\* The statistics last computed are those of the collection.
StatisticsShown == view.selector = "selectTaskStatistics"

\* The sum of the values of the map counts.
RECURSIVE SumOfValues(_)
SumOfValues(counts) ==
    IF DOMAIN counts = {} THEN 0
    ELSE LET k == CHOOSE k \in DOMAIN counts : TRUE
         IN  counts[k] + SumOfValues([j \in DOMAIN counts \ {k} |-> counts[j]])

(* C18: for every collection, completedTasks + pendingTasks = totalTasks   *)
(* in the statistics, where totalTasks is the length of the collection and *)
(* completedTasks the number of its tasks with status completed.           *)
C18_CompletedPlusPendingIsTotal ==
    StatisticsShown =>
        /\ view.result.completedTasks + view.result.pendingTasks
                = view.result.totalTasks
        /\ view.result.totalTasks = Len(tasks)
        /\ view.result.completedTasks
                = Len(SelectSeq(tasks, LAMBDA t : t.status = "completed"))

\* Statistics of nine tasks of which four are completed.
C18_Witness ==
    /\ StatisticsShown
    /\ Len(tasks) = 9
    /\ view.result.completedTasks = 4
    /\ view.result.pendingTasks = 5

(* C19: for every collection, the values of categoryCounts sum to          *)
(* totalTasks and the values of priorityCounts sum to totalTasks, and a    *)
(* category or priority is a key of its map exactly when at least one task *)
(* has it.                                                                 *)
C19_CountsSumToTotalOverPresentKeys ==
    StatisticsShown =>
        /\ SumOfValues(view.result.categoryCounts) = view.result.totalTasks
        /\ SumOfValues(view.result.priorityCounts) = view.result.totalTasks
        /\ DOMAIN view.result.categoryCounts
                = {tasks[i].category : i \in 1..Len(tasks)}
        /\ DOMAIN view.result.priorityCounts
                = {tasks[i].priority : i \in 1..Len(tasks)}

\* Statistics of the first four tasks of the sample: three of category
\* work and one personal, and no other category is a key.
C19_Witness ==
    /\ StatisticsShown
    /\ Len(tasks) = 4
    /\ DOMAIN view.result.categoryCounts = {"work", "personal"}
    /\ view.result.categoryCounts["work"] = 3
    /\ view.result.categoryCounts["personal"] = 1
    /\ view.result.priorityCounts["medium"] = 2

(* C20: completionRate is completed / total * 100 rounded to the nearest   *)
(* integer, halves rounded up, when the collection has tasks, and 0 when   *)
(* it is empty; it always lies in 0..100.                                  *)
C20_CompletionRateIsRoundedPercentage ==
    StatisticsShown =>
        LET completed == Len(SelectSeq(tasks, LAMBDA t : t.status = "completed"))
            total == Len(tasks)
        IN  /\ total = 0 => view.result.completionRate = 0
            /\ total > 0 =>
                    view.result.completionRate
                        = (200 * completed + total) \div (2 * total)
            /\ view.result.completionRate \in 0..100

(* C21: overdueCount is the number of tasks with status pending whose      *)
(* deadline date is strictly before the current date, at every time of     *)
(* day: a pending task whose deadline is the current date is not counted.  *)
(* Dates are those of the UTC calendar.                                    *)
C21_OverdueCountsDeadlinesBeforeToday ==
    StatisticsShown =>
        view.result.overdueCount
            = Cardinality({i \in 1..Len(tasks) :
                            /\ tasks[i].status = "pending"
                            /\ GetTime(tasks[i].deadline) \div HoursPerDay
                                    < view.today \div HoursPerDay})

\* seq2 holds the elements of seq1, each as often as seq1 does.
IsPermutation(seq1, seq2) ==
    /\ Len(seq1) = Len(seq2)
    /\ \A x \in Range(seq1) \cup Range(seq2) : Count(seq1, x) = Count(seq2, x)

\* The days from 1970-01-01 to each task's deadline, in order.
DeadlineDays(ts) ==
    [i \in 1..Len(ts) |-> GetTime(ts[i].deadline) \div HoursPerDay]

\* The last selector applied sorts by deadline in the given direction.
SortedByDeadline(direction) ==
    \/ /\ view.selector = "selectTasksSortedByField"
       /\ view.field = "deadline"
       /\ view.direction = direction
    \/ /\ view.selector = "selectTasksSortedByDeadline"
       /\ direction = "asc"

(* C22: for every collection, sorting by deadline ascending gives a        *)
(* permutation of the collection in non-decreasing chronological order of  *)
(* deadline, and descending a permutation in non-increasing order.         *)
C22_DeadlineSortIsChronological ==
    /\ SortedByDeadline("asc") =>
            /\ IsPermutation(tasks, view.result)
            /\ \A i \in 1..(Len(view.result) - 1) :
                    DeadlineDays(view.result)[i] <= DeadlineDays(view.result)[i + 1]
    /\ SortedByDeadline("desc") =>
            /\ IsPermutation(tasks, view.result)
            /\ \A i \in 1..(Len(view.result) - 1) :
                    DeadlineDays(view.result)[i] >= DeadlineDays(view.result)[i + 1]

\* Tasks 1 (May 10), 2 (June 1) and 5 (April 5) sorted by deadline,
\* latest first.
C22_Witness ==
    /\ SortedByDeadline("desc")
    /\ [i \in 1..Len(tasks) |-> tasks[i].id] = <<1, 2, 5>>
    /\ [i \in 1..Len(view.result) |-> view.result[i].id] = <<2, 1, 5>>

\* The last selector applied sorts by priority, ascending.
SortedByPriority ==
    \/ /\ view.selector = "selectTasksSortedByField"
       /\ view.field = "priority"
       /\ view.direction = "asc"
    \/ view.selector = "selectTasksSortedByPriority"

(* C23: for every collection, sorting by priority ascending gives all high *)
(* tasks, then all medium tasks, then all low tasks, the tasks of equal    *)
(* priority in the order they have in the collection.                      *)
C23_PrioritySortIsHighMediumLowStable ==
    SortedByPriority =>
        view.result = SelectSeq(tasks, LAMBDA t : t.priority = "high")
                      \o SelectSeq(tasks, LAMBDA t : t.priority = "medium")
                      \o SelectSeq(tasks, LAMBDA t : t.priority = "low")

\* Tasks 3 (low), 2 (medium) and 10 (low) sorted to 2, 3, 10.
C23_Witness ==
    /\ view.selector = "selectTasksSortedByPriority"
    /\ [i \in 1..Len(tasks) |-> tasks[i].id] = <<3, 2, 10>>
    /\ [i \in 1..Len(view.result) |-> view.result[i].id] = <<2, 3, 10>>

\* The fields that selectTasksSortedByField compares as text.
TextFields == {"id", "title", "status", "category"}

\* The lowercased text of a field; the decimal text of an id has no case.
TextOf(task, field) ==
    IF field = "id" THEN NumberToString(task.id)
    ELSE ToLowerCase(Chars(task[field]))

\* The position in the collection of the task with this id.
PlaceOf(id) == CHOOSE i \in 1..Len(tasks) : tasks[i].id = id

(* C24: sorting by id, title, status or category orders the tasks by the   *)
(* lowercased text of the field, non-decreasing when ascending and         *)
(* non-increasing when descending, tasks of equal text keeping the order   *)
(* of the collection; an id is compared by its decimal text.               *)
C24_TextSortIsByLowercasedText ==
    (view.selector = "selectTasksSortedByField" /\ view.field \in TextFields) =>
        /\ IsPermutation(view.result, tasks)
        /\ \A i, j \in 1..Len(view.result) :
               i < j =>
                   LET a == TextOf(view.result[i], view.field)
                       b == TextOf(view.result[j], view.field)
                   IN  /\ view.direction = "asc" => ~LessThan(b, a)
                       /\ view.direction = "desc" => ~LessThan(a, b)
                       /\ a = b => PlaceOf(view.result[i].id)
                                   < PlaceOf(view.result[j].id)

\* Ids 2 and 10 sorted ascending by id: 10 comes first.
C24_Witness ==
    /\ view.selector = "selectTasksSortedByField"
    /\ view.field = "id"
    /\ view.direction = "asc"
    /\ [i \in 1..Len(tasks) |-> tasks[i].id] = <<2, 10>>
    /\ [i \in 1..Len(view.result) |-> view.result[i].id] = <<10, 2>>

\* The lowercased title holds the lowercased term at some offset.
TitleContains(task, searchTerm) ==
    LET title == ToLowerCase(Chars(task.title))
        term == ToLowerCase(Chars(searchTerm))
    IN  \E k \in 0..(Len(title) - Len(term)) :
            \A i \in 1..Len(term) : title[k + i] = term[i]

\* The term is empty or holds white space only.
IsBlank(searchTerm) == \A i \in 1..Len(Chars(searchTerm)) : Chars(searchTerm)[i] = " "

(* C25: the search by a term gives, in collection order, exactly the tasks *)
(* whose lowercased title contains the lowercased term; an empty or        *)
(* whitespace-only term gives the whole collection, and a term contained   *)
(* in no title gives the empty sequence.                                   *)
C25_SearchGivesTitlesContainingTerm ==
    view.selector = "selectTasksBySearchTerm" =>
        /\ IsBlank(view.searchTerm) => view.result = tasks
        /\ ~IsBlank(view.searchTerm) =>
               view.result = SelectSeq(tasks, LAMBDA task :
                                          TitleContains(task, view.searchTerm))
        /\ (~IsBlank(view.searchTerm)
            /\ \A i \in 1..Len(tasks) : ~TitleContains(tasks[i], view.searchTerm))
               => view.result = <<>>

\* "LOGIN" finds "fix Login page" and "Fix login bug", not "Write unit tests".
C25_Witness ==
    /\ view.selector = "selectTasksBySearchTerm"
    /\ view.searchTerm = "LOGIN"
    /\ [i \in 1..Len(tasks) |-> tasks[i].id] = <<10, 2, 1>>
    /\ [i \in 1..Len(view.result) |-> view.result[i].id] = <<10, 1>>

\* The day of the deadline picked is before the local day of the submission.
DeadlineBeforeToday ==
    GetTime(view.data.deadline) \div HoursPerDay
        < (view.now + view.offset) \div HoursPerDay

\* The title submitted is empty or shorter than 3 characters.
TitleTooShort == Len(Chars(view.data.title)) < 3

\* The submission dispatched nothing and the store is as it was.
NothingDispatched ==
    /\ last.op = "none"
    /\ Snapshot = prev

(* C26: a submission of the task form with a title that is empty or        *)
(* shorter than 3 characters, or with a deadline before today, dispatches  *)
(* nothing and leaves the store as it was; any other submission dispatches *)
(* addTask when the form adds and updateTask with the edited task's id     *)
(* when the form edits.                                                    *)
C26_FormDispatchesExactlyWhenValid ==
    view.selector = "TaskForm" =>
        IF TitleTooShort \/ DeadlineBeforeToday
        THEN NothingDispatched
        ELSE IF view.task = <<>>
        THEN last.op = "addTask" /\ last.arg = view.data
        ELSE /\ last.op = "updateTask"
             /\ last.arg.id = view.task[1].id

\* An invalid submission leaves the store as it was.
FormRejectsInvalidSubmission ==
    (view.selector = "TaskForm" /\ (TitleTooShort \/ DeadlineBeforeToday))
        => NothingDispatched

\* The task passes every select of the list that is not on 'all' and the
\* search of the list.
Passes(task) ==
    /\ view.statusFilter # "all" => task.status = view.statusFilter
    /\ view.categoryFilter # "all" => task.category = view.categoryFilter
    /\ view.priorityFilter # "all" => task.priority = view.priorityFilter
    /\ ~IsBlank(view.searchTerm) => TitleContains(task, view.searchTerm)

\* The selectors of the slice applied one to the other's result, each one
\* skipped when its filter is on 'all'.
SelectorPipeline ==
    LET byStatus == IF view.statusFilter = "all" THEN tasks
                    ELSE selectTasksByStatus(tasks, view.statusFilter)
        byCategory == IF view.categoryFilter = "all" THEN byStatus
                      ELSE selectTasksByCategory(byStatus, view.categoryFilter)
        byPriority == IF view.priorityFilter = "all" THEN byCategory
                      ELSE selectTasksByPriority(byCategory, view.priorityFilter)
        bySearchTerm == selectTasksBySearchTerm(byPriority, view.searchTerm)
    IN  IF view.sortField = "" THEN bySearchTerm
        ELSE selectTasksSortedByField(bySearchTerm, view.sortField,
                                      view.sortDirection)

(* C27: the list displayed is the pipeline status filter, category filter, *)
(* priority filter, search, field sort: it holds exactly the tasks that    *)
(* pass every active filter and the search, in collection order when no    *)
(* sort field is selected and otherwise in the order selectTasksSortedBy-  *)
(* Field gives them; with every filter on 'all', an empty search and no    *)
(* sort it is the collection.                                              *)
C27_ListIsFilterSearchSortPipeline ==
    view.selector = "TaskList" =>
        /\ view.result = SelectorPipeline
        /\ view.sortField = "" => view.result = SelectSeq(tasks, Passes)
        /\ view.sortField # "" =>
               view.result = selectTasksSortedByField(SelectSeq(tasks, Passes),
                                                      view.sortField,
                                                      view.sortDirection)
        /\ (/\ view.statusFilter = "all"
            /\ view.categoryFilter = "all"
            /\ view.priorityFilter = "all"
            /\ view.searchTerm = ""
            /\ view.sortField = "") => view.result = tasks

\* Of tasks 3 (completed) and 10 (pending), both with "login" in the title,
\* the pending one is listed; of 10 and 1, both pending, sorted by title.
C27_Witness ==
    /\ view.selector = "TaskList"
    /\ view.statusFilter = "pending"
    /\ view.priorityFilter = "low"
    /\ view.searchTerm = "LOGIN"
    /\ view.sortField = "title"
    /\ [i \in 1..Len(tasks) |-> tasks[i].id] = <<3, 10>>
    /\ [i \in 1..Len(view.result) |-> view.result[i].id] = <<10>>

(* C28: reorder with any payload, be it empty, with an id twice or with    *)
(* ids no task has, leaves a permutation of the collection: no task is     *)
(* added, removed or modified, and nextId and the deleted-id pool are what *)
(* they were.                                                              *)
C28_ReorderOnlyPermutes ==
    last.op = "updateTaskOrder" =>
        /\ IsPermutation(tasks, prev.tasks)
        /\ nextId = prev.nextId
        /\ deletedIds = prev.deletedIds

\* reorder([3, 9, 3, 1]) on the sample: id 3 twice, id 9 of no task.
C28_Witness ==
    /\ last.op = "updateTaskOrder"
    /\ last.arg = <<3, 9, 3, 1>>
    /\ prev.tasks = SampleTasks
    /\ [i \in 1..Len(tasks) |-> tasks[i].id] = <<3, 1, 2, 4, 5, 6, 7>>

(* C29: for every collection and every current time, no task is counted   *)
(* both as overdue and as upcoming in the statistics, so overdueCount +    *)
(* upcomingCount is at most pendingTasks.                                  *)
C29_OverdueAndUpcomingAreDisjoint ==
    StatisticsShown =>
        /\ \A i \in 1..Len(tasks) :
               ~(IsOverdue(tasks[i], view.today) /\ IsUpcoming(tasks[i], view.today))
        /\ view.result.overdueCount + view.result.upcomingCount
               <= view.result.pendingTasks

\* Both entries are in the storage.
BothEntriesPresent ==
    /\ localStorage.tasks.kind # "null"
    /\ localStorage.nextId.kind # "null"

(* C30: in every reachable state in which both storage entries are         *)
(* present, also after a write of which one of the two entries failed, the *)
(* stored nextId is strictly greater than every id in the stored tasks.    *)
C30_StoredNextIdAboveStoredIds ==
    BothEntriesPresent =>
        LET storedTasks == JSONParse(localStorage.tasks).value
            storedNextId == ParseInt(localStorage.nextId)
        IN  \A i \in 1..Len(storedTasks) : storedTasks[i].id < storedNextId

====
